---- MODULE Spec2Model ----
(***************************************************************************)
(* Model of the folkroot pairwise alignment engine:                        *)
(*   - global_alignment (utils/global_approximate_alignment.cpp),          *)
(*   - the batched, transactional sweep of compute_features_alignment.cpp  *)
(*     and shared_segments_alignment.cpp over the SQLite store.            *)
(***************************************************************************)
EXTENDS Integers, Sequences, FiniteSets, TLC

\* ------------------------------------------------------------------ bounds
\* Longest feature sequence handed to global_alignment.
MaxLen == 3

\* ------------------------------------------------------- optional<int>
\* std::optional<int>: the empty tuple is nullopt, <<v>> holds the value v.
nullopt == <<>>

Some(v) == <<v>>

has_value(x) == x # <<>>

value(x) == x[1]

\* Present values of the bounded alignment inputs.
FeatureValues == {3, 5}

OptValues == {nullopt} \cup {Some(v) : v \in FeatureValues}

\* All sequences over S of length 0..n.
SeqsUpTo(S, n) == UNION {[1..k -> S] : k \in 0..n}

\* Signed scores and penalties handed to global_alignment.
MatchScores == {-1, 0, 1}

MismatchPenalties == {-3, 1}

GapPenalties == {-1, 1}

\* ------------------------------------------------------- global_alignment
min_of_three(a, b, c) ==
    LET ab == IF b < a THEN b ELSE a
    IN  IF c < ab THEN c ELSE ab

\* The score of aligning two elements (the if / else-if / else chain).
pairScore_restMismatch(x, y, match_score, mismatch_penalty) ==
    IF has_value(x) /\ has_value(y) /\ value(x) = value(y)
    THEN match_score
    ELSE mismatch_penalty

pairScore(x, y, match_score, mismatch_penalty) ==
    IF ~has_value(x) /\ ~has_value(y)
    THEN match_score
    ELSE IF has_value(x) /\ has_value(y)
         THEN IF value(x) = value(y) THEN match_score ELSE mismatch_penalty
         ELSE mismatch_penalty

first_row_shifted(f2_size, gap_penalty) ==
    [j \in 0..f2_size |-> (j - 1) * gap_penalty]

\* prev_column after "Initialize first row"; indices 0..f2_size.
first_row(f2_size, gap_penalty) ==
    [j \in 0..f2_size |-> j * gap_penalty]

\* The inner loop over j, from j up to f2_size, of iteration i.
RECURSIVE fill_column(_, _, _, _, _, _, _, _, _)
fill_column(prev_column, current_column, i, j, s1, s2, match_score, mismatch_penalty, gap_penalty) ==
    IF j > Len(s2)
    THEN current_column
    ELSE LET score == pairScore(s1[i], s2[j], match_score, mismatch_penalty)
             cell  == min_of_three(prev_column[j - 1] + score,
                                   prev_column[j] + gap_penalty,
                                   current_column[j - 1] + gap_penalty)
         IN  fill_column(prev_column, [current_column EXCEPT ![j] = cell],
                         i, j + 1, s1, s2,
                         match_score, mismatch_penalty, gap_penalty)

next_column_stale0(prev_column, i, s1, s2, match_score, mismatch_penalty, gap_penalty) ==
    fill_column(prev_column, prev_column, i, 1, s1, s2,
                match_score, mismatch_penalty, gap_penalty)

\* One iteration of the outer loop: current_column (still equal to
\* prev_column on entry) gets cell 0 and then cells 1..f2_size.
next_column(prev_column, i, s1, s2, match_score, mismatch_penalty, gap_penalty) ==
    fill_column(prev_column, [prev_column EXCEPT ![0] = i * gap_penalty],
                i, 1, s1, s2, match_score, mismatch_penalty, gap_penalty)

\* The outer loop from iteration i on; returns the last current_column.
RECURSIVE columns_from(_, _, _, _, _, _, _)
columns_from(prev_column, i, s1, s2, match_score, mismatch_penalty, gap_penalty) ==
    IF i > Len(s1)
    THEN prev_column
    ELSE columns_from(next_column(prev_column, i, s1, s2, match_score,
                                  mismatch_penalty, gap_penalty),
                      i + 1, s1, s2,
                      match_score, mismatch_penalty, gap_penalty)

global_alignment(s1, s2, match_score, mismatch_penalty, gap_penalty) ==
    columns_from(first_row(Len(s2), gap_penalty), 1, s1, s2,
                 match_score, mismatch_penalty, gap_penalty)[Len(s2)]

\* ------------------------------------------------ feature encodings
\* A TEXT column: NULL, or a string given as its sequence of characters.
NULL == [isnull |-> TRUE, chars |-> <<>>]

Text(cs) == [isnull |-> FALSE, chars |-> cs]

INT_MAX == 2147483647

INT_MIN == -2147483647 - 1

DigitChars == {"0", "1", "2", "3", "4", "5", "6", "7", "8", "9"}

DigitVal(c) == CASE c = "0" -> 0 [] c = "1" -> 1 [] c = "2" -> 2 [] c = "3" -> 3 [] c = "4" -> 4 [] c = "5" -> 5 [] c = "6" -> 6 [] c = "7" -> 7 [] c = "8" -> 8 [] c = "9" -> 9

\* The digits of tok from position k on, accumulated as a negated magnitude
\* nacc >= lim; "range" once the next digit would leave [lim, 0].
RECURSIVE stoi_digits(_, _, _, _, _)
stoi_digits(tok, k, nacc, lim, seen) ==
    IF k > Len(tok) \/ tok[k] \notin DigitChars
    THEN [err |-> IF seen THEN "none" ELSE "invalid_argument", nval |-> nacc]
    ELSE LET d == DigitVal(tok[k])
         IN  IF nacc < (lim + d + 9) \div 10
             THEN [err |-> "out_of_range", nval |-> 0]
             ELSE stoi_digits(tok, k + 1, nacc * 10 - d, lim, TRUE)

\* Index of the first character of tok at or after k that is not a blank.
RECURSIVE skip_space(_, _)
skip_space(tok, k) ==
    IF k <= Len(tok) /\ tok[k] = " " THEN skip_space(tok, k + 1) ELSE k

\* std::stoi: leading blanks, an optional sign, then the longest run of
\* digits; what follows the digits is ignored.
stoi(tok) ==
    LET k0  == skip_space(tok, 1)
        neg == k0 <= Len(tok) /\ tok[k0] = "-"
        k1  == IF k0 <= Len(tok) /\ tok[k0] \in {"-", "+"} THEN k0 + 1 ELSE k0
        r   == stoi_digits(tok, k1, 0, IF neg THEN INT_MIN ELSE -INT_MAX, FALSE)
    IN  [err |-> r.err, val |-> IF r.err # "none" THEN 0 ELSE IF neg THEN r.nval ELSE -r.nval]

\* getline(ss, value, ';') repeated: the pieces of cs between delimiters
\* (a trailing delimiter yields no further piece).
RECURSIVE getline_all(_, _, _, _)
getline_all(cs, k, cur, acc) ==
    IF k > Len(cs)
    THEN IF cur = <<>> /\ (Len(cs) = 0 \/ cs[Len(cs)] = ";") THEN acc ELSE Append(acc, cur)
    ELSE IF cs[k] = ";"
         THEN getline_all(cs, k + 1, <<>>, Append(acc, cur))
         ELSE getline_all(cs, k + 1, Append(cur, cs[k]), acc)

\* The body of the while loop for the pieces from position k on.
RECURSIVE convert_tokens(_, _, _)
convert_tokens(toks, k, result) ==
    IF k > Len(toks) THEN result
    ELSE IF toks[k] = <<>> THEN convert_tokens(toks, k + 1, result)
    ELSE IF toks[k] = <<"r">> THEN convert_tokens(toks, k + 1, Append(result, nullopt))
    ELSE LET r == stoi(toks[k])
         IN  IF r.err = "none"
             THEN convert_tokens(toks, k + 1, Append(result, Some(r.val)))
             ELSE convert_tokens(toks, k + 1, Append(result, nullopt))

convert_feature_to_vector(feature) ==
    convert_tokens(getline_all(feature, 1, <<>>, <<>>), 1, <<>>)

\* ------------------------------------------------ the store's input tables
FeatureTypes == <<"diatonic", "chromatic", "rhythmic", "diatonic_rhythmic", "chromatic_rhythmic">>

FeatureTypeSet == {FeatureTypes[k] : k \in 1..Len(FeatureTypes)}

FtIndex(ft) == CHOOSE k \in 1..Len(FeatureTypes) : FeatureTypes[k] = ft

\* diatonic_feature of the row with a given id: "1", "1", "2", "", "r;3", NULL.
DiatonicTexts == <<Text(<<"1">>), Text(<<"1">>), Text(<<"2">>), Text(<<>>), Text(<<"r", ";", "3">>), NULL>>

\* The other four columns: "1;r;2", "r;3", NULL, "2", "1x;;-2", "", "x;99999999999".
OtherTexts == <<Text(<<"1", ";", "r", ";", "2">>), Text(<<"r", ";", "3">>), NULL, Text(<<"2">>), Text(<<"1", "x", ";", ";", "-", "2">>), Text(<<>>), Text(<<"x", ";", "9", "9", "9", "9", "9", "9", "9", "9", "9", "9", "9">>)>>

\* The feature column ft of the Score / Segment row with this id.
FeatureColumn(id, ft) ==
    IF ft = "diatonic"
    THEN DiatonicTexts[((id - 1) % Len(DiatonicTexts)) + 1]
    ELSE OtherTexts[((id + 2 * FtIndex(ft)) % Len(OtherTexts)) + 1]

GroupSeqs == <<<<0, 1>>, <<1, 1, 2>>, <<>>, <<2>>, <<0, 0, 1>>, <<0, 0, 1>>>>

\* The rows of Segment JOIN SegmentToGroup of one score and feature type,
\* ordered by start_note: the group id of each segment.
SegmentGroupRows(score_id, feature_type) ==
    GroupSeqs[((score_id + FtIndex(feature_type)) % Len(GroupSeqs)) + 1]

\* ------------------------------------------------ reading the corpus
get_structural_feature(score_id, feature_type) ==
    LET rows == SegmentGroupRows(score_id, feature_type)
    IN  [k \in 1..Len(rows) |-> Some(rows[k])]

HasDiatonic_any(id) == TRUE

\* WHERE diatonic_feature != '' (a NULL column does not satisfy it).
HasDiatonic(id) ==
    LET c == FeatureColumn(id, "diatonic")
    IN  ~c.isnull /\ c.chars # <<>>

\* tbl: the ids of the rows of Score (or Segment) in the order the query
\* returns them.
get_feature_data(tbl, is_segment, is_structure) ==
    LET rows == IF is_segment \/ ~is_structure THEN SelectSeq(tbl, HasDiatonic) ELSE tbl
        feature(id, ft) ==
            IF ~is_segment /\ is_structure
            THEN get_structural_feature(id, ft)
            ELSE LET c == FeatureColumn(id, ft)
                 IN  convert_feature_to_vector(IF c.isnull THEN <<>> ELSE c.chars)
    IN  [k \in 1..Len(rows) |-> [id |-> rows[k], feature |-> [ft \in FeatureTypeSet |-> feature(rows[k], ft)]]]

get_all_score_ids(tbl) == tbl

\* map<int,int>: group id -> number of rows with that group id.
get_group_occurrences(score_id, feature_type) ==
    LET rows == SegmentGroupRows(score_id, feature_type)
        gids == {rows[k] : k \in 1..Len(rows)}
    IN  [g \in gids |-> Cardinality({k \in 1..Len(rows) : rows[k] = g})]

\* SELECT MAX(group_id) FROM SegmentToGroup WHERE feature_type = ?; 0 on NULL.
get_max_group_id(tbl, feature_type) ==
    LET gids == UNION {{SegmentGroupRows(tbl[n], feature_type)[k] : k \in 1..Len(SegmentGroupRows(tbl[n], feature_type))} : n \in 1..Len(tbl)}
    IN  IF gids = {} THEN 0 ELSE CHOOSE g \in gids : \A h \in gids : h <= g

map_to_vector_without_group_0(occurrences, max_group_id) ==
    [k \in 1..max_group_id |-> IF k \in DOMAIN occurrences THEN occurrences[k] ELSE 0]

\* vector<double> of size max_group_id + 1; element g of the vector is
\* element g + 1 of the sequence.
map_to_vector(occurrences, max_group_id) ==
    [k \in 1..(max_group_id + 1) |-> IF (k - 1) \in DOMAIN occurrences THEN occurrences[k - 1] ELSE 0]

\* sum of f(k) for k in lo..hi
RECURSIVE SumSq(_, _, _, _)
SumSq(v1, v2, lo, hi) ==
    IF lo > hi THEN 0
    ELSE LET a == IF lo <= Len(v1) THEN v1[lo] ELSE 0
             b == IF lo <= Len(v2) THEN v2[lo] ELSE 0
         IN  (a - b) * (a - b) + SumSq(v1, v2, lo + 1, hi)

euclidean_sum_sq_v1_tail_only(v1, v2) ==
    LET n == IF Len(v1) < Len(v2) THEN Len(v1) ELSE Len(v2)
    IN  SumSq(v1, v2, 1, n) + SumSq(v1, <<>>, n + 1, Len(v1))

\* sum_sq of euclidean_distance: the common prefix, then the tail of the
\* longer vector.
euclidean_sum_sq(v1, v2) ==
    LET n == IF Len(v1) < Len(v2) THEN Len(v1) ELSE Len(v2)
        prefix == SumSq(v1, v2, 1, n)
    IN  IF Len(v1) > n THEN prefix + SumSq(v1, <<>>, n + 1, Len(v1))
        ELSE IF Len(v2) > n THEN prefix + SumSq(<<>>, v2, n + 1, Len(v2))
        ELSE prefix

\* Largest r in lo..hi with r * r <= n.
RECURSIVE isqrt(_, _, _)
isqrt(n, lo, hi) ==
    IF lo >= hi THEN lo
    ELSE LET mid == (lo + hi + 1) \div 2
         IN  IF mid * mid <= n THEN isqrt(n, mid, hi) ELSE isqrt(n, lo, mid - 1)

distance_score_truncated(sum_sq) == isqrt(10000 * sum_sq, 0, 46340)

\* static_cast<int>(round(sqrt(sum_sq) * 100)): half-up rounding of
\* sqrt(10000 * sum_sq), i.e. floor((sqrt(40000 * sum_sq) + 1) / 2).
distance_score(sum_sq) ==
    (isqrt(40000 * sum_sq, 0, 46340) + 1) \div 2

\* ------------------------------------------------ result records and rows
\* AlignmentScores; score maps each feature type to its *_score field.
AlignmentScores(id1, id2, level, score) ==
    [id1 |-> id1, id2 |-> id2, level |-> level, score |-> score]

bound_ids_as_given(a) == <<a.id1, a.id2>>

\* The two ids bound to the insert: min(a.id1, a.id2), max(a.id1, a.id2).
bound_ids(a) ==
    <<IF a.id2 < a.id1 THEN a.id2 ELSE a.id1, IF a.id1 < a.id2 THEN a.id2 ELSE a.id1>>

\* The row one insert of save_alignments_batch binds; SegmentAlignment has
\* no level column.
alignment_row(a, is_seg) ==
    [tbl |-> IF is_seg THEN "SegmentAlignment" ELSE "ScoreAlignment", id1 |-> bound_ids(a)[1], id2 |-> bound_ids(a)[2], level |-> IF is_seg THEN "" ELSE a.level, score |-> a.score]

\* A line of cerr; id1 and id2 name the record of a failed insert and are 0
\* in every other line.
Message(msg, id1, id2) == [msg |-> msg, id1 |-> id1, id2 |-> id2]

violates_unique_never(rows, r) == FALSE

\* UNIQUE (score_id_1, score_id_2, level) / UNIQUE (segment_id_1, segment_id_2).
violates_unique(rows, r) ==
    \E q \in rows : q.tbl = r.tbl /\ q.id1 = r.id1 /\ q.id2 = r.id2 /\ q.level = r.level

\* score_alignment_id / segment_alignment_id INTEGER PRIMARY KEY
\* AUTOINCREMENT: the row an accepted insert adds to the rows the statement
\* sees.
inserted_row(rows, r) ==
    LET ids == {q.alignment_id : q \in {q \in rows : q.tbl = r.tbl}}
        last == IF ids = {} THEN 0 ELSE CHOOSE n \in ids : \A m \in ids : m <= n
    IN  [tbl |-> r.tbl, alignment_id |-> last + 1, id1 |-> r.id1, id2 |-> r.id2, level |-> r.level, score |-> r.score]

after_failed_step_return(alignments, k) == Len(alignments) + 1

\* The record the for loop handles after record k, whose sqlite3_step did
\* not return SQLITE_DONE: the if only writes to cerr.
after_failed_step(alignments, k) == k + 1

\* The for loop of save_alignments_batch from record k on: rows is the
\* table content the statement sees, fails the records whose sqlite3_step
\* does not return SQLITE_DONE for a reason of the store's own.
RECURSIVE save_alignments_batch(_, _, _, _, _)
save_alignments_batch(rows, alignments, k, is_seg, fails) ==
    IF k > Len(alignments) THEN rows
    ELSE LET r == alignment_row(alignments[k], is_seg)
         IN  IF k \in fails \/ violates_unique(rows, r)
             THEN save_alignments_batch(rows, alignments, after_failed_step(alignments, k), is_seg, fails)
             ELSE save_alignments_batch(rows \cup {inserted_row(rows, r)}, alignments, k + 1, is_seg, fails)

\* What the same loop writes to cerr: one line for each record whose
\* sqlite3_step does not return SQLITE_DONE.
RECURSIVE failed_inserts(_, _, _, _, _)
failed_inserts(rows, alignments, k, is_seg, fails) ==
    IF k > Len(alignments) THEN <<>>
    ELSE LET r == alignment_row(alignments[k], is_seg)
         IN  IF k \in fails \/ violates_unique(rows, r)
             THEN <<Message("Failed to insert batch alignment", r.id1, r.id2)>> \o failed_inserts(rows, alignments, after_failed_step(alignments, k), is_seg, fails)
             ELSE failed_inserts(rows \cup {inserted_row(rows, r)}, alignments, k + 1, is_seg, fails)

\* ------------------------------------------------------------------ bounds
\* Most rows of the corpus table (Score or Segment).
MaxN == 4

\* BATCH_SIZE is 10000 in process_alignments and in
\* process_shared_segments_alignments; it is scaled down here so that full
\* batches, a remainder and exact multiples all occur within MaxN rows.
BATCH_SIZE == 2

\* Most inserts of one run that the store fails for a reason of its own.
MaxFaults == 1

batch_full_gt(batch_) == Len(batch_) > BATCH_SIZE

\* if (batch.size() >= BATCH_SIZE)
batch_full(batch_) == Len(batch_) >= BATCH_SIZE

batch_clear_kept(batch_) == batch_

\* batch.clear()
batch_clear(batch_) == <<>>

inner_start_at_i(i_) == i_

\* for (size_t j = i + 1; ...
inner_start(i_) == i_ + 1

\* Command lines: argv[1], argv[2], ...
Argvs == {<<>>, <<"--type=segment">>, <<"--type=segment", "extra">>, <<"--type=score">>, <<"--type=score", "--level", "note">>, <<"--type=score", "--level", "structure">>, <<"--type=score", "--level", "shared_segments">>, <<"--type=score", "--level", "bogus">>, <<"--type=score", "--lvl", "note">>, <<"--type=foo", "--level", "note">>}

\* The ids 1..n of a table of n rows, in any order the query may return them.
TableOrders(n) == {t \in [1..n -> 1..n] : \A x, y \in 1..n : t[x] = t[y] => x = y}

\* ------------------------------------------------------------------ state
VARIABLES
    a_pc,        \* "input": arguments chosen, "done": global_alignment returned
    a_s1,        \* score_1_feature
    a_s2,        \* score_2_feature
    a_match,     \* match_score
    a_mismatch,  \* mismatch_penalty
    a_gap,       \* gap_penalty
    a_result,    \* the value returned by global_alignment
    pc,          \* position of the run of main
    argv,        \* the command line
    tbl,         \* ids of the rows of the corpus table, in query order
    is_segment,  \* main: is_segment
    level,       \* main: level
    exit_code,   \* value returned by main, -1 while running
    db_open,     \* the connection is open
    in_txn,      \* a transaction is open on the connection
    txn_rows,    \* rows inserted in the open transaction
    committed,   \* rows of the alignment tables that are committed
    data,        \* process_alignments: data
    scores,      \* process_shared_segments_alignments: scores
    max_group_ids,       \* process_shared_segments_alignments: max_group_ids
    cached_occurrences,  \* process_shared_segments_alignments: cached_occurrences
    i,           \* outer loop index
    j,           \* inner loop index
    batch,       \* the record buffer
    produced,    \* history: <<i, j>> of every record pushed to batch
    save_calls,  \* history: the alignments argument of every save_alignments_batch call
    faults_left, \* inserts the store may still fail
    lost,        \* records that were not committed when the process died
    diag,        \* what the run has written to cerr
    store_ok,    \* FALSE once the store could not be opened or set up
    runs,        \* runs started against the store so far
    c_pc,        \* "input": feature chosen, "done": convert_feature_to_vector returned
    c_feature,   \* feature
    c_result,    \* the vector returned by convert_feature_to_vector
    e_pc,        \* "input": vectors chosen, "done": euclidean_distance returned
    e_v1,        \* v1
    e_v2,        \* v2
    e_sum,       \* sum_squared_diffs at the return
    e_score,     \* round(distance * 100) of the returned distance
    s_pc,        \* folk_root_processing.sh: "parsed", "running", "exit"
    alignment_type,    \* alignment_type
    score_level,       \* score_level
    skip_setup,        \* skip_setup
    skip_clustering,   \* skip_clustering
    generate_trees,    \* generate_trees
    confirm,     \* the answer read at the --skip-clustering warning
    s_todo,      \* the commands the script has still to run, in order
    s_log,       \* the commands run so far, each with its outcome
    s_status,    \* the exit status of the script, -1 while it runs
    t_pc,        \* "input": three sequences chosen, "done": the three calls returned
    t_A,         \* the sequences A, B, C
    t_B,
    t_C,
    t_AB,        \* global_alignment(A, B, 0, 1, 1)
    t_BC,        \* global_alignment(B, C, 0, 1, 1)
    t_AC         \* global_alignment(A, C, 0, 1, 1)

avars == <<a_pc, a_s1, a_s2, a_match, a_mismatch, a_gap, a_result>>

argvars == <<argv, tbl, is_segment, level>>

dbvars == <<db_open, in_txn, txn_rows, committed, faults_left>>

loadvars == <<data, scores, max_group_ids, cached_occurrences>>

loopvars == <<i, j, batch, produced, save_calls>>

cvars == <<c_pc, c_feature, c_result>>

evars == <<e_pc, e_v1, e_v2, e_sum, e_score>>

svars == <<s_pc, alignment_type, score_level, skip_setup, skip_clustering, generate_trees, confirm, s_todo, s_log, s_status>>

tvars == <<t_pc, t_A, t_B, t_C, t_AB, t_BC, t_AC>>

pvars == <<avars, cvars, evars, svars, tvars>>

logvars == <<diag, store_ok, runs>>

rvars == <<pc, argvars, exit_code, dbvars, loadvars, loopvars, lost, logvars>>

vars == <<pvars, rvars>>

\* The run of main does not take part in the specification of the pure call.
RunIdle ==
    /\ pc = "idle" /\ argv = <<>> /\ tbl = <<>> /\ is_segment = FALSE /\ level = ""
    /\ exit_code = -1 /\ db_open = FALSE /\ in_txn = FALSE /\ txn_rows = {} /\ committed = {}
    /\ data = <<>> /\ scores = <<>> /\ max_group_ids = <<>> /\ cached_occurrences = <<>>
    /\ i = 0 /\ j = 0 /\ batch = <<>> /\ produced = <<>> /\ save_calls = <<>>
    /\ faults_left = 0 /\ lost = 0
    /\ diag = <<>> /\ store_ok = TRUE /\ runs = 0

AlignIdle ==
    /\ a_pc = "idle" /\ a_s1 = <<>> /\ a_s2 = <<>>
    /\ a_match = 0 /\ a_mismatch = 0 /\ a_gap = 0 /\ a_result = 0

ConvertIdle == c_pc = "idle" /\ c_feature = <<>> /\ c_result = <<>>

EuclidIdle == e_pc = "idle" /\ e_v1 = <<>> /\ e_v2 = <<>> /\ e_sum = 0 /\ e_score = 0

ScriptIdle ==
    /\ s_pc = "idle" /\ alignment_type = "none" /\ score_level = "none"
    /\ skip_setup = FALSE /\ skip_clustering = FALSE /\ generate_trees = FALSE /\ confirm = ""
    /\ s_todo = <<>> /\ s_log = <<>> /\ s_status = -1

TriangleIdle ==
    /\ t_pc = "idle" /\ t_A = <<>> /\ t_B = <<>> /\ t_C = <<>>
    /\ t_AB = 0 /\ t_BC = 0 /\ t_AC = 0

\* -------------------------------------------- specification of the pure call
InitAlign ==
    /\ a_pc = "input"
    /\ a_s1 \in SeqsUpTo(OptValues, MaxLen)
    /\ a_s2 \in SeqsUpTo(OptValues, MaxLen)
    /\ a_match \in MatchScores
    /\ a_mismatch \in MismatchPenalties
    /\ a_gap \in GapPenalties
    /\ a_result = 0
    /\ RunIdle /\ ConvertIdle /\ EuclidIdle /\ ScriptIdle /\ TriangleIdle

CallGlobalAlignment ==
    /\ a_pc = "input"
    /\ a_result' = global_alignment(a_s1, a_s2, a_match, a_mismatch, a_gap)
    /\ a_pc' = "done"
    /\ UNCHANGED <<a_s1, a_s2, a_match, a_mismatch, a_gap>>
    /\ UNCHANGED <<cvars, evars, svars, tvars, rvars>>

NextAlign == CallGlobalAlignment

SpecAlign == InitAlign /\ [][NextAlign]_vars

\* ------------------- specification of three calls on three sequences
\* Longest sequence of the three.
MaxTriLen == 2

InitTriangle ==
    /\ t_pc = "input"
    /\ t_A \in SeqsUpTo(OptValues, MaxTriLen)
    /\ t_B \in SeqsUpTo(OptValues, MaxTriLen)
    /\ t_C \in SeqsUpTo(OptValues, MaxTriLen)
    /\ t_AB = 0 /\ t_BC = 0 /\ t_AC = 0
    /\ RunIdle /\ AlignIdle /\ ConvertIdle /\ EuclidIdle /\ ScriptIdle

\* The three calls as process_alignments makes them: match 0, mismatch 1,
\* gap 1.
CallThreeAlignments ==
    /\ t_pc = "input"
    /\ t_AB' = global_alignment(t_A, t_B, 0, 1, 1)
    /\ t_BC' = global_alignment(t_B, t_C, 0, 1, 1)
    /\ t_AC' = global_alignment(t_A, t_C, 0, 1, 1)
    /\ t_pc' = "done"
    /\ UNCHANGED <<t_A, t_B, t_C, avars, cvars, evars, svars, rvars>>

NextTriangle == CallThreeAlignments

SpecTriangle == InitTriangle /\ [][NextTriangle]_vars

\* ------------------------- specification of one convert_feature_to_vector call
\* Longest feature string drawn from ConvertChars.
MaxTextLen == 4

\* Characters of the drawn feature strings: digits, a letter, the rest
\* marker, the delimiter and the sign.
ConvertChars == {"1", "2", "x", "r", ";", "-"}

\* Feature strings with a token beyond the range of int: "99999999999",
\* "1;-99999999999;2", "2147483648", "-2147483648".
LongFeatures == {<<"9", "9", "9", "9", "9", "9", "9", "9", "9", "9", "9">>, <<"1", ";", "-", "9", "9", "9", "9", "9", "9", "9", "9", "9", "9", "9", ";", "2">>, <<"2", "1", "4", "7", "4", "8", "3", "6", "4", "8">>, <<"-", "2", "1", "4", "7", "4", "8", "3", "6", "4", "8">>}

InitConvert ==
    /\ c_pc = "input"
    /\ c_feature \in SeqsUpTo(ConvertChars, MaxTextLen) \cup LongFeatures
    /\ c_result = <<>>
    /\ RunIdle /\ AlignIdle /\ EuclidIdle /\ ScriptIdle /\ TriangleIdle

CallConvertFeatureToVector ==
    /\ c_pc = "input"
    /\ c_result' = convert_feature_to_vector(c_feature)
    /\ c_pc' = "done"
    /\ UNCHANGED <<c_feature, avars, evars, svars, tvars, rvars>>

NextConvert == CallConvertFeatureToVector

SpecConvert == InitConvert /\ [][NextConvert]_vars

\* --------------------------------- specification of one euclidean_distance call
\* Longest occurrence vector.
MaxVecLen == 3

\* Occurrence counts of the drawn vectors.
OccurrenceCounts == 0..3

InitEuclid ==
    /\ e_pc = "input"
    /\ e_v1 \in SeqsUpTo(OccurrenceCounts, MaxVecLen)
    /\ e_v2 \in SeqsUpTo(OccurrenceCounts, MaxVecLen)
    /\ e_sum = 0 /\ e_score = 0
    /\ RunIdle /\ AlignIdle /\ ConvertIdle /\ ScriptIdle /\ TriangleIdle

\* euclidean_distance, and the conversion of its result at the call site.
CallEuclideanDistance ==
    /\ e_pc = "input"
    /\ e_sum' = euclidean_sum_sq(e_v1, e_v2)
    /\ e_score' = distance_score(euclidean_sum_sq(e_v1, e_v2))
    /\ e_pc' = "done"
    /\ UNCHANGED <<e_v1, e_v2, avars, cvars, svars, tvars, rvars>>

NextEuclid == CallEuclideanDistance

SpecEuclid == InitEuclid /\ [][NextEuclid]_vars

\* -------------------------------------------- specification of a run of main
Init ==
    /\ AlignIdle /\ ConvertIdle /\ EuclidIdle /\ ScriptIdle /\ TriangleIdle
    /\ pc = "main"
    /\ argv \in Argvs
    /\ \E n \in 0..MaxN : tbl \in TableOrders(n)
    /\ is_segment = FALSE /\ level = ""
    /\ exit_code = -1 /\ db_open = FALSE /\ in_txn = FALSE /\ txn_rows = {} /\ committed = {}
    /\ data = <<>> /\ scores = <<>> /\ max_group_ids = <<>> /\ cached_occurrences = <<>>
    /\ i = 0 /\ j = 0 /\ batch = <<>> /\ produced = <<>> /\ save_calls = <<>>
    /\ faults_left = MaxFaults /\ lost = 0
    /\ diag = <<>> /\ store_ok = TRUE /\ runs = 1

Levels == {"note", "structure", "shared_segments"}

args_rejected_any_level(args) ==
    \/ Len(args) + 1 < 2
    \/ /\ args[1] # "--type=segment"
       /\ \/ Len(args) + 1 # 4
          \/ args[2] # "--level"

\* main, lines 314-339: the invocation is rejected.
args_rejected(args) ==
    \/ Len(args) + 1 < 2
    \/ /\ args[1] # "--type=segment"
       /\ \/ Len(args) + 1 # 4
          \/ args[2] # "--level"
          \/ args[3] \notin Levels

\* main, lines 314-338: what a rejected invocation writes to cerr.
main_diag(args) ==
    IF Len(args) + 1 < 2 THEN <<Message("Usage", 0, 0)>>
    ELSE IF args[1] = "--type=segment" THEN <<>>
    ELSE IF Len(args) + 1 # 4 \/ args[2] # "--level" THEN <<Message("Error: --level parameter is required for score alignment", 0, 0)>>
    ELSE IF args[3] \notin Levels THEN <<Message("Error: level must be 'note', 'structure', or 'shared_segments'", 0, 0)>>
    ELSE <<>>

\* main up to the call of initialize_database.
MainParseArgs ==
    /\ pc = "main"
    /\ diag' = diag \o main_diag(argv)
    /\ IF args_rejected(argv)
       THEN /\ pc' = "exit" /\ exit_code' = 1
            /\ UNCHANGED <<is_segment, level>>
       ELSE /\ is_segment' = (argv[1] = "--type=segment")
            /\ level' = IF argv[1] = "--type=segment" THEN "" ELSE argv[3]
            /\ pc' = "open_db"
            /\ UNCHANGED exit_code
    /\ UNCHANGED <<pvars, argv, tbl, dbvars, loadvars, loopvars, lost, store_ok, runs>>

begin_transaction_without_effect(open) == open

\* sqlite3_exec(db, "BEGIN TRANSACTION"): a transaction is open afterwards
\* (the statement fails, and changes nothing, if one is open already).
begin_transaction(open) == TRUE

\* initialize_database succeeds: the pragmas, then BEGIN TRANSACTION.
InitializeDatabase ==
    /\ pc = "open_db"
    /\ db_open' = TRUE /\ in_txn' = begin_transaction(in_txn)
    /\ pc' = "load"
    /\ UNCHANGED <<pvars, argvars, exit_code, txn_rows, committed, faults_left, loadvars, loopvars, lost, logvars>>

\* sqlite3_open fails: initialize_database returns nullptr, main returns 1.
InitializeDatabaseFails ==
    /\ pc = "open_db"
    /\ store_ok' = FALSE
    /\ diag' = Append(diag, Message("Cannot open database", 0, 0))
    /\ pc' = "exit" /\ exit_code' = 1
    /\ UNCHANGED <<pvars, argvars, dbvars, loadvars, loopvars, lost, runs>>

\* sqlite3_open succeeds on a file that cannot be used as the store (it is
\* not a database, or another connection holds it): the pragmas and BEGIN
\* TRANSACTION fail, their results are not looked at, and
\* initialize_database returns the connection.  Every later statement
\* on the connection fails as well.
InitializeDatabaseNotConfigured ==
    /\ pc = "open_db"
    /\ store_ok' = FALSE
    /\ db_open' = TRUE
    /\ pc' = "load"
    /\ UNCHANGED <<pvars, argvars, exit_code, in_txn, txn_rows, committed, faults_left, loadvars, loopvars, lost, diag, runs>>

SharedPath_never == FALSE

SharedPath == ~is_segment /\ level = "shared_segments"

\* main line 357: get_feature_data, then process_alignments up to its loops.
LoadFeatureData ==
    /\ pc = "load" /\ ~SharedPath
    /\ IF store_ok
       THEN data' = get_feature_data(tbl, is_segment, level = "structure") /\ UNCHANGED diag
       ELSE data' = <<>> /\ diag' = Append(diag, Message("Failed to prepare statement", 0, 0))
    /\ i' = 0 /\ j' = inner_start(0) /\ batch' = <<>>
    /\ pc' = "sweep"
    /\ UNCHANGED <<pvars, argvars, exit_code, dbvars, scores, max_group_ids, cached_occurrences, produced, save_calls, lost, store_ok, runs>>

feature_types_diatonic_only == {"diatonic"}

\* The feature types the maps are built for (lines 201-202, 206, 216).
feature_types == FeatureTypeSet

\* std::map::operator[] of every key of keys: a key the map does not hold is
\* inserted with a value-initialised element.
subscripted(map_, keys, dflt) ==
    [k \in DOMAIN map_ \cup keys |-> IF k \in DOMAIN map_ THEN map_[k] ELSE dflt]

\* process_shared_segments_alignments up to its loops: the score ids, the
\* max group ids and the occurrence cache.
LoadSharedSegments ==
    /\ pc = "load" /\ SharedPath
    /\ IF store_ok
       THEN /\ scores' = get_all_score_ids(tbl)
            /\ max_group_ids' = [ft \in feature_types |-> get_max_group_id(tbl, ft)]
            /\ cached_occurrences' = [key \in {<<tbl[n], ft>> : n \in 1..Len(tbl), ft \in feature_types} |-> get_group_occurrences(key[1], key[2])]
            /\ UNCHANGED diag
       ELSE /\ scores' = <<>>
            /\ max_group_ids' = [ft \in feature_types |-> 0]
            /\ cached_occurrences' = <<>>
            /\ diag' = diag \o [n \in 1..6 |-> Message("Failed to prepare statement", 0, 0)]
    /\ i' = 0 /\ j' = inner_start(0) /\ batch' = <<>>
    /\ pc' = "sweep"
    /\ UNCHANGED <<pvars, argvars, exit_code, dbvars, data, produced, save_calls, lost, store_ok, runs>>

\* data.size() / scores.size()
CorpusSize == IF SharedPath THEN Len(scores) ELSE Len(data)

alignment_scores_diatonic_from_chromatic(x, y) ==
    AlignmentScores(data[x + 1].id, data[y + 1].id, level, [ft \in FeatureTypeSet |-> global_alignment(data[x + 1].feature[IF ft = "diatonic" THEN "chromatic" ELSE ft], data[y + 1].feature[IF ft = "diatonic" THEN "chromatic" ELSE ft], 0, 1, 1)])

\* The record of process_alignments for positions x, y (0-based).
alignment_scores(x, y) ==
    AlignmentScores(data[x + 1].id, data[y + 1].id, level, [ft \in FeatureTypeSet |-> global_alignment(data[x + 1].feature[ft], data[y + 1].feature[ft], 0, 1, 1)])

\* The maps after the lookups of the pair at positions x, y: lines 246-250
\* read both maps with operator[].
max_group_ids_read == subscripted(max_group_ids, FeatureTypeSet, 0)

cached_occurrences_read(x, y) ==
    subscripted(cached_occurrences, {scores[x + 1], scores[y + 1]} \X FeatureTypeSet, <<>>)

\* The record of process_shared_segments_alignments for positions x, y.
shared_segments_scores(x, y) ==
    AlignmentScores(scores[x + 1], scores[y + 1], level, [ft \in FeatureTypeSet |-> distance_score(euclidean_sum_sq(map_to_vector(cached_occurrences_read(x, y)[<<scores[x + 1], ft>>], max_group_ids_read[ft]), map_to_vector(cached_occurrences_read(x, y)[<<scores[y + 1], ft>>], max_group_ids_read[ft])))])

\* The end of an inner-loop iteration whose record is rec.
PushRecord(rec) ==
    /\ batch' = Append(batch, rec)
    /\ produced' = Append(produced, <<i, j>>)
    /\ IF batch_full(batch')
       THEN pc' = "save_full" /\ j' = j
       ELSE pc' = "sweep" /\ j' = j + 1
    /\ UNCHANGED <<pvars, argvars, exit_code, dbvars, data, scores, i, save_calls, lost, logvars>>

\* process_alignments: one pair, up to the test of the batch size.
ComparePair ==
    /\ pc = "sweep" /\ ~SharedPath
    /\ i < CorpusSize /\ j < CorpusSize
    /\ PushRecord(alignment_scores(i, j))
    /\ UNCHANGED <<max_group_ids, cached_occurrences>>

\* process_shared_segments_alignments: one pair, up to the test of the
\* batch size.
ComparePairShared ==
    /\ pc = "sweep" /\ SharedPath
    /\ i < CorpusSize /\ j < CorpusSize
    /\ PushRecord(shared_segments_scores(i, j))
    /\ max_group_ids' = max_group_ids_read
    /\ cached_occurrences' = cached_occurrences_read(i, j)

\* The inner loop ends: the outer loop goes to its next index.
NextRow ==
    /\ pc = "sweep"
    /\ i < CorpusSize /\ j >= CorpusSize
    /\ i' = i + 1 /\ j' = inner_start(i + 1)
    /\ UNCHANGED <<pvars, pc, argvars, exit_code, dbvars, loadvars, batch, produced, save_calls, lost, logvars>>

\* One call of save_alignments_batch with the whole buffer; the store may
\* fail some of the inserts.
SaveBatch ==
    \E fails \in SUBSET (1..Len(batch)) :
        /\ Cardinality(fails) <= faults_left
        /\ faults_left' = faults_left - Cardinality(fails)
        /\ save_calls' = Append(save_calls, batch)
        /\ diag' = diag \o failed_inserts(committed \cup txn_rows, batch, 1, is_segment, fails)
        /\ IF in_txn
           THEN /\ txn_rows' = save_alignments_batch(committed \cup txn_rows, batch, 1, is_segment, fails) \ committed
                /\ UNCHANGED committed
           ELSE /\ committed' = save_alignments_batch(committed, batch, 1, is_segment, fails)
                /\ UNCHANGED txn_rows

\* The full batch: save_alignments_batch and batch.clear().
SaveFullBatch ==
    /\ pc = "save_full"
    /\ SaveBatch
    /\ batch' = batch_clear(batch)
    /\ pc' = "commit"
    /\ UNCHANGED <<pvars, argvars, exit_code, db_open, in_txn, loadvars, i, j, produced, lost, store_ok, runs>>

\* sqlite3_exec(db, "COMMIT") after a full batch.
CommitBatch ==
    /\ pc = "commit"
    /\ committed' = committed \cup txn_rows
    /\ txn_rows' = {}
    /\ in_txn' = FALSE
    /\ pc' = "begin"
    /\ UNCHANGED <<pvars, argvars, exit_code, db_open, faults_left, loadvars, loopvars, lost, logvars>>

\* sqlite3_exec(db, "BEGIN TRANSACTION") after a full batch; the inner loop
\* goes on.
BeginBatch ==
    /\ pc = "begin"
    /\ in_txn' = begin_transaction(in_txn)
    /\ j' = j + 1
    /\ pc' = "sweep"
    /\ UNCHANGED <<pvars, argvars, exit_code, db_open, txn_rows, committed, faults_left, loadvars, i, batch, produced, save_calls, lost, logvars>>

\* After the loops: the remainder is saved if there is one and the function
\* returns, which ends the life of batch.
SaveRemainder ==
    /\ pc = "sweep"
    /\ i >= CorpusSize
    /\ IF batch # <<>>
       THEN SaveBatch
       ELSE UNCHANGED <<txn_rows, committed, faults_left, save_calls, diag>>
    /\ batch' = <<>>
    /\ pc' = "final_commit"
    /\ UNCHANGED <<pvars, argvars, exit_code, db_open, in_txn, loadvars, i, j, produced, lost, store_ok, runs>>

\* main line 361: COMMIT.
FinalCommit ==
    /\ pc = "final_commit"
    /\ committed' = committed \cup txn_rows
    /\ txn_rows' = {}
    /\ in_txn' = FALSE
    /\ pc' = "close"
    /\ UNCHANGED <<pvars, argvars, exit_code, db_open, faults_left, loadvars, loopvars, lost, logvars>>

\* main lines 362-365: PRAGMA synchronous=FULL, sqlite3_close, return 0.
CloseDatabase ==
    /\ pc = "close"
    /\ db_open' = FALSE
    /\ exit_code' = 0
    /\ pc' = "exit"
    /\ UNCHANGED <<pvars, argvars, in_txn, txn_rows, committed, faults_left, loadvars, loopvars, lost, logvars>>

\* The process dies while the connection is open: the buffer is gone and
\* the open transaction is rolled back.
Crash ==
    /\ pc \in {"load", "sweep", "save_full", "commit", "begin", "final_commit", "close"}
    /\ lost' = Len(batch) + Cardinality(txn_rows)
    /\ batch' = <<>> /\ txn_rows' = {}
    /\ in_txn' = FALSE /\ db_open' = FALSE
    /\ pc' = "crashed"
    /\ UNCHANGED <<pvars, argvars, exit_code, committed, faults_left, loadvars, i, j, produced, save_calls, logvars>>

Next ==
    \/ MainParseArgs
    \/ InitializeDatabase
    \/ InitializeDatabaseFails
    \/ InitializeDatabaseNotConfigured
    \/ LoadFeatureData
    \/ LoadSharedSegments
    \/ ComparePair
    \/ ComparePairShared
    \/ NextRow
    \/ SaveFullBatch
    \/ CommitBatch
    \/ BeginBatch
    \/ SaveRemainder
    \/ FinalCommit
    \/ CloseDatabase
    \/ Crash

Spec == Init /\ [][Next]_vars

\* ------------------------- specification of runs one after another on a store
\* Most runs of the program against the same store.
MaxRuns == 2

\* The program is started again after a run has ended or died: the tables
\* keep their committed rows, everything else belongs to the new process.
Restart ==
    /\ pc \in {"exit", "crashed"}
    /\ runs < MaxRuns
    /\ runs' = runs + 1
    /\ argv' \in Argvs
    /\ pc' = "main"
    /\ is_segment' = FALSE /\ level' = ""
    /\ exit_code' = -1 /\ db_open' = FALSE /\ in_txn' = FALSE /\ txn_rows' = {}
    /\ data' = <<>> /\ scores' = <<>> /\ max_group_ids' = <<>> /\ cached_occurrences' = <<>>
    /\ i' = 0 /\ j' = 0 /\ batch' = <<>> /\ produced' = <<>> /\ save_calls' = <<>>
    /\ lost' = 0 /\ diag' = <<>> /\ store_ok' = TRUE
    /\ UNCHANGED <<pvars, tbl, committed, faults_left>>

\* The first run: the store takes every insert that keeps the tables'
\* constraints, and the corpus query returns the rows by ascending or by
\* descending id.
InitRuns ==
    /\ AlignIdle /\ ConvertIdle /\ EuclidIdle /\ ScriptIdle /\ TriangleIdle
    /\ pc = "main"
    /\ argv \in Argvs
    /\ \E n \in 0..MaxN : tbl = [k \in 1..n |-> k] \/ tbl = [k \in 1..n |-> n + 1 - k]
    /\ is_segment = FALSE /\ level = ""
    /\ exit_code = -1 /\ db_open = FALSE /\ in_txn = FALSE /\ txn_rows = {} /\ committed = {}
    /\ data = <<>> /\ scores = <<>> /\ max_group_ids = <<>> /\ cached_occurrences = <<>>
    /\ i = 0 /\ j = 0 /\ batch = <<>> /\ produced = <<>> /\ save_calls = <<>>
    /\ faults_left = 0 /\ lost = 0
    /\ diag = <<>> /\ store_ok = TRUE /\ runs = 1

NextRuns ==
    \/ Next
    \/ Restart

SpecRuns == InitRuns /\ [][NextRuns]_vars

\* ------------------------------------ specification of a run that keeps going
\* The steps of the program itself: everything but the death of the process.
NextProgram ==
    \/ MainParseArgs
    \/ InitializeDatabase
    \/ InitializeDatabaseFails
    \/ InitializeDatabaseNotConfigured
    \/ LoadFeatureData
    \/ LoadSharedSegments
    \/ ComparePair
    \/ ComparePairShared
    \/ NextRow
    \/ SaveFullBatch
    \/ CommitBatch
    \/ BeginBatch
    \/ SaveRemainder
    \/ FinalCommit
    \/ CloseDatabase

\* A run on a table returned by ascending or by descending id.
InitLive ==
    /\ AlignIdle /\ ConvertIdle /\ EuclidIdle /\ ScriptIdle /\ TriangleIdle
    /\ pc = "main"
    /\ argv \in Argvs
    /\ \E n \in 0..MaxN : tbl = [k \in 1..n |-> k] \/ tbl = [k \in 1..n |-> n + 1 - k]
    /\ is_segment = FALSE /\ level = ""
    /\ exit_code = -1 /\ db_open = FALSE /\ in_txn = FALSE /\ txn_rows = {} /\ committed = {}
    /\ data = <<>> /\ scores = <<>> /\ max_group_ids = <<>> /\ cached_occurrences = <<>>
    /\ i = 0 /\ j = 0 /\ batch = <<>> /\ produced = <<>> /\ save_calls = <<>>
    /\ faults_left = MaxFaults /\ lost = 0
    /\ diag = <<>> /\ store_ok = TRUE /\ runs = 1

\* The positions of main.
PcValues == {"main", "open_db", "load", "sweep", "save_full", "commit", "begin", "final_commit", "close", "exit", "crashed"}

\* The position of the run: every step of the program changes it.
position == <<pc, i, j>>

\* The program executes its next statement: main has not returned, the
\* process lives, and the step is not the death of the process.
Advance ==
    /\ pc \notin {"exit", "crashed"}
    /\ pc' \in PcValues \ {"crashed"}
    /\ i' \in 0..(MaxN + 1) /\ j' \in 0..(MaxN + 2)

\* main is one sequential thread without a blocking call other than the
\* statements on the store: as long as the process lives and main has not
\* returned, its next statement is executed.  A step of NextProgram is a
\* step of Next that changes the position and does not kill the process,
\* and some action of NextProgram is enabled at every position before the
\* return of main, so that this is weak fairness of NextProgram.  The
\* process may die at any step (Crash).
SpecLive == InitLive /\ [][Next]_vars /\ WF_position(Advance)

\* ------------------------------------ specification of folk_root_processing.sh
\* Values of --alignment and --level given on the command line.
AlignmentTypes == {"segment", "score", "all", "none", "bogus"}

ScoreLevels == {"none", "note", "structure", "shared_segments", "all", "bogus"}

ValidLevels == {"note", "structure", "shared_segments", "all"}

\* Non-zero exit statuses of a command.
FailureStatuses == {1, 2}

\* The script after its option loop, lines 71-99.
InitScript ==
    /\ s_pc = "parsed"
    /\ alignment_type \in AlignmentTypes
    /\ score_level \in ScoreLevels
    /\ skip_setup \in BOOLEAN /\ skip_clustering \in BOOLEAN /\ generate_trees \in BOOLEAN
    /\ confirm \in {"y", "n"}
    /\ s_todo = <<>> /\ s_log = <<>> /\ s_status = -1
    /\ RunIdle /\ AlignIdle /\ ConvertIdle /\ EuclidIdle /\ TriangleIdle

\* Lines 109-115.
clustering_required(type, lvl) ==
    \/ type = "score" /\ lvl \in {"structure", "shared_segments", "all"}
    \/ type = "all"

effective_alignment_type_as_given(type, lvl, skip) == type

\* Lines 133-138: alignment_type after the rewrite of a score request that
\* needs the clusters.
effective_alignment_type(type, lvl, skip) ==
    IF type = "score" /\ lvl \in {"structure", "shared_segments", "all"} /\ ~skip
    THEN "all"
    ELSE type

\* Lines 101-168: the exit status with which the validation ends the
\* script, -1 if the script goes on.
validation_status(type, lvl, skip, answer) ==
    IF type \in {"score", "all"} /\ lvl = "none" THEN 1
    ELSE IF clustering_required(type, lvl) /\ skip /\ answer \notin {"y", "Y"} THEN 0
    ELSE LET eff == effective_alignment_type(type, lvl, skip)
         IN  IF eff \in {"score", "all"} THEN (IF lvl \in ValidLevels THEN -1 ELSE 1)
             ELSE IF eff \in {"segment", "none"} THEN -1
             ELSE 1

\* run_global_alignment: the compilation, then the program.
run_global_alignment(type, lvl) ==
    <<<<"g++">>, <<"compute_features_alignment", type, lvl>>>>

\* run_segments_clustering.
run_segments_clustering(skip) ==
    IF skip THEN <<>> ELSE <<<<"undertake_segments_clustering.sh">>>>

\* The score alignments of lines 286-292 and 301-307.
score_alignments(lvl) ==
    IF lvl = "all"
    THEN run_global_alignment("score", "note") \o run_global_alignment("score", "structure") \o run_global_alignment("score", "shared_segments")
    ELSE run_global_alignment("score", lvl)

\* Lines 279-312: the commands of the selected branch, in order.
alignment_commands(type, lvl, skip) ==
    CASE type = "segment" -> run_global_alignment("segment", "") \o run_segments_clustering(skip)
      [] type = "score" -> score_alignments(lvl)
      [] type = "all" -> run_global_alignment("segment", "") \o run_segments_clustering(skip) \o score_alignments(lvl)
      [] OTHER -> <<>>

\* Lines 171-186.
setup_commands(skip) ==
    IF skip THEN <<>> ELSE <<<<"sqlite3">>, <<"compute_features.sh">>>>

\* run_phylogenetic_analysis.
run_phylogenetic_analysis(trees) ==
    IF trees THEN <<<<"generate_all_phylo_trees.sh">>, <<"visualize_all_trees.sh">>>> ELSE <<>>

\* Lines 101-168: the validation of the options and the rewrite of
\* alignment_type; what follows is the list of commands of lines 171-315.
ScriptValidate ==
    /\ s_pc = "parsed"
    /\ LET st == validation_status(alignment_type, score_level, skip_clustering, confirm)
           eff == effective_alignment_type(alignment_type, score_level, skip_clustering)
       IN  IF st # -1
           THEN /\ s_pc' = "exit" /\ s_status' = st
                /\ UNCHANGED <<alignment_type, s_todo>>
           ELSE /\ s_pc' = "running"
                /\ alignment_type' = eff
                /\ s_todo' = setup_commands(skip_setup) \o alignment_commands(eff, score_level, skip_clustering) \o run_phylogenetic_analysis(generate_trees)
                /\ UNCHANGED s_status
    /\ UNCHANGED <<score_level, skip_setup, skip_clustering, generate_trees, confirm, s_log>>
    /\ UNCHANGED <<avars, cvars, evars, tvars, rvars>>

\* The next command of the script succeeds.
ScriptCommand ==
    /\ s_pc = "running" /\ s_todo # <<>>
    /\ s_log' = Append(s_log, [cmd |-> Head(s_todo), status |-> 0])
    /\ s_todo' = Tail(s_todo)
    /\ UNCHANGED <<s_pc, alignment_type, score_level, skip_setup, skip_clustering, generate_trees, confirm, s_status>>
    /\ UNCHANGED <<avars, cvars, evars, tvars, rvars>>

\* The next command fails: set -e (line 54) ends the script with the
\* command's status before the test of $? that follows the command.
ScriptCommandFails ==
    /\ s_pc = "running" /\ s_todo # <<>>
    /\ \E st \in FailureStatuses :
          /\ s_log' = Append(s_log, [cmd |-> Head(s_todo), status |-> st])
          /\ s_status' = st
    /\ s_pc' = "exit"
    /\ UNCHANGED <<alignment_type, score_level, skip_setup, skip_clustering, generate_trees, confirm, s_todo>>
    /\ UNCHANGED <<avars, cvars, evars, tvars, rvars>>

\* Line 317: the end of the script.
ScriptEnd ==
    /\ s_pc = "running" /\ s_todo = <<>>
    /\ s_pc' = "exit" /\ s_status' = 0
    /\ UNCHANGED <<alignment_type, score_level, skip_setup, skip_clustering, generate_trees, confirm, s_todo, s_log>>
    /\ UNCHANGED <<avars, cvars, evars, tvars, rvars>>

NextScript ==
    \/ ScriptValidate
    \/ ScriptCommand
    \/ ScriptCommandFails
    \/ ScriptEnd

SpecScript == InitScript /\ [][NextScript]_vars

\* ------------------------------------------------------------------ claims
\* The full (m+1) x (n+1) matrix of the recurrence, filled cell by cell in
\* row-major order from cell (r, c) on; M maps <<row, column>> to the cell.
RECURSIVE FullMatrix(_, _, _, _, _, _, _, _)
FullMatrix(M, r, c, A, B, match, mismatch, gap) ==
    IF r > Len(A) THEN M
    ELSE IF c > Len(B) THEN FullMatrix(M, r + 1, 0, A, B, match, mismatch, gap)
    ELSE LET cell == IF r = 0 THEN c * gap
                     ELSE IF c = 0 THEN r * gap
                     ELSE LET d == M[<<r - 1, c - 1>>] + pairScore(A[r], B[c], match, mismatch)
                              u == M[<<r - 1, c>>] + gap
                              l == M[<<r, c - 1>>] + gap
                          IN  IF d <= u /\ d <= l THEN d ELSE IF u <= l THEN u ELSE l
         IN  FullMatrix([M EXCEPT ![<<r, c>>] = cell], r, c + 1, A, B, match, mismatch, gap)

\* C1: global_alignment returns the bottom-right cell of the full
\* (m+1) x (n+1) matrix with cell(0,j) = j*gap, cell(i,0) = i*gap and
\* cell(i,j) = min(diagonal + pairScore, up + gap, left + gap).
C1_BottomRightCell ==
    a_pc = "done" =>
        a_result = FullMatrix([q \in (0..Len(a_s1)) \X (0..Len(a_s2)) |-> 0], 0, 0, a_s1, a_s2, a_match, a_mismatch, a_gap)[<<Len(a_s1), Len(a_s2)>>]

C1_Witness ==
    /\ a_pc = "done"
    /\ Len(a_s1) = 3 /\ Len(a_s2) = 2
    /\ a_s1 = <<Some(3), nullopt, Some(5)>>
    /\ a_s2 = <<nullopt, Some(5)>>
    /\ a_match = 0 /\ a_mismatch = 1 /\ a_gap = 1
    /\ a_result = 1

\* C2: global_alignment(A, B, ...) equals global_alignment(B, A, ...) for
\* every pair of sequences and every match, mismatch and gap value.
C2_Symmetry ==
    a_pc = "done" =>
        a_result = global_alignment(a_s2, a_s1, a_match, a_mismatch, a_gap)

C2_Witness ==
    /\ a_pc = "done"
    /\ a_s1 = <<Some(3), Some(5), nullopt>>
    /\ a_s2 = <<Some(5)>>
    /\ a_match = 0 /\ a_mismatch = 1 /\ a_gap = 1
    /\ a_result = 2

\* The score of a pair of elements as the claim words it.
ClaimedPairScore(x, y, match, mismatch) ==
    CASE x = nullopt /\ y = nullopt -> match
      [] x # nullopt /\ y # nullopt /\ x[1] = y[1] -> match
      [] OTHER -> mismatch

\* C3: pairScore is match_score for two absent elements, match_score for two
\* equal present elements and mismatch_penalty otherwise; with (0,1,1),
\* [absent,3] vs [absent,3] gives 0 and [absent,3] vs [5,3] gives 1.
C3_PairScore ==
    a_pc = "done" =>
        /\ \A p \in 1..Len(a_s1), q \in 1..Len(a_s2) :
              pairScore(a_s1[p], a_s2[q], a_match, a_mismatch)
                 = ClaimedPairScore(a_s1[p], a_s2[q], a_match, a_mismatch)
        /\ (Len(a_s1) = 1 /\ Len(a_s2) = 1) =>
              a_result = min_of_three(
                  ClaimedPairScore(a_s1[1], a_s2[1], a_match, a_mismatch),
                  2 * a_gap, 2 * a_gap)
        /\ (a_match = 0 /\ a_mismatch = 1 /\ a_gap = 1
              /\ a_s1 = <<nullopt, Some(3)>>) =>
              /\ a_s2 = <<nullopt, Some(3)>> => a_result = 0
              /\ a_s2 = <<Some(5), Some(3)>> => a_result = 1

C3_Witness ==
    /\ a_pc = "done"
    /\ a_match = 0 /\ a_mismatch = 1 /\ a_gap = 1
    /\ a_s1 = <<nullopt, Some(3)>>
    /\ a_s2 = <<Some(5), Some(3)>>
    /\ a_result = 1

\* C4: global_alignment([], B) = len(B) * gap_penalty,
\* global_alignment(B, []) = len(B) * gap_penalty, and [] vs [] gives 0.
C4_EmptySequence ==
    a_pc = "done" =>
        /\ a_s1 = <<>> => a_result = Len(a_s2) * a_gap
        /\ a_s2 = <<>> => a_result = Len(a_s1) * a_gap
        /\ (a_s1 = <<>> /\ a_s2 = <<>>) => a_result = 0

C4_Witness ==
    /\ a_pc = "done"
    /\ a_s2 = <<>>
    /\ Len(a_s1) = 3
    /\ a_gap = 1
    /\ a_result = 3

\* C5 as claimed: a sequence aligned against an identical copy gives 0
\* whenever match_score = 0, whatever mismatch_penalty and gap_penalty are.
C5_IdentityAnyPenalty ==
    (a_pc = "done" /\ a_s1 = a_s2 /\ a_match = 0) => a_result = 0

\* C5 (amended): a sequence aligned against an identical copy gives 0 when
\* match_score = 0 and neither mismatch_penalty nor gap_penalty is negative.
C5_IdentityNonNegPenalty ==
    (a_pc = "done" /\ a_s1 = a_s2 /\ a_match = 0
        /\ a_mismatch >= 0 /\ a_gap >= 0) => a_result = 0

C5_Witness ==
    /\ a_pc = "done"
    /\ a_s1 = <<Some(3), nullopt, Some(5)>>
    /\ a_s2 = a_s1
    /\ a_match = 0 /\ a_mismatch = 1 /\ a_gap = 1
    /\ a_result = 0

\* C6 as claimed: global_alignment returns a non-negative integer for every
\* signed match score, mismatch penalty and gap penalty.
C6_NonNegativeAnyScore ==
    a_pc = "done" => a_result >= 0

\* C6 (amended): global_alignment returns a non-negative integer when the
\* match score, the mismatch penalty and the gap penalty are non-negative.
C6_NonNegativeNonNegScore ==
    (a_pc = "done" /\ a_match >= 0 /\ a_mismatch >= 0 /\ a_gap >= 0)
        => a_result >= 0

C6_Witness ==
    /\ a_pc = "done"
    /\ a_match = 1 /\ a_mismatch = 1 /\ a_gap = 1
    /\ a_s1 = <<Some(3), Some(3)>>
    /\ a_s2 = <<Some(3), nullopt, Some(3)>>
    /\ a_result = 3

\* process_alignments / process_shared_segments_alignments has returned.
SweepReturned == pc \in {"final_commit", "close"} \/ (pc = "exit" /\ exit_code = 0)

\* All records handed to save_alignments_batch so far, in order.
RECURSIVE Flatten(_)
Flatten(calls) == IF calls = <<>> THEN <<>> ELSE Head(calls) \o Flatten(Tail(calls))

\* The id of the entity at a 0-based corpus position.
EntityId(x) == IF SharedPath THEN scores[x + 1] ELSE data[x + 1].id

\* C7: a run over a corpus of N >= 0 entities, at any level and in segment
\* mode, produces exactly N(N-1)/2 records, one for each unordered pair of
\* distinct corpus positions, no pair twice and none missing.
C7_PairCount ==
    SweepReturned =>
        LET n == CorpusSize
            handed == Flatten(save_calls)
        IN  /\ Len(produced) = (n * (n - 1)) \div 2
            /\ {produced[k] : k \in 1..Len(produced)} = {q \in (0..(n - 1)) \X (0..(n - 1)) : q[1] < q[2]}
            /\ \A k, l \in 1..Len(produced) : produced[k] = produced[l] => k = l
            /\ Len(handed) = Len(produced)
            /\ \A k \in 1..Len(handed) : handed[k].id1 = EntityId(produced[k][1]) /\ handed[k].id2 = EntityId(produced[k][2])

C7_Witness ==
    /\ pc = "exit" /\ exit_code = 0
    /\ level = "structure"
    /\ CorpusSize = 4
    /\ Len(produced) = 6

\* C8: for every record handed to save_alignments_batch with ids (x, y) in
\* either order, the row written has id1 = min(x, y) and id2 = max(x, y);
\* every persisted row of a pair of distinct entities has id1 < id2.
C8_CanonicalOrder ==
    LET handed == Flatten(save_calls)
    IN  /\ \A r \in committed \cup txn_rows :
              /\ r.id1 < r.id2
              /\ \E k \in 1..Len(handed) :
                    /\ r.score = handed[k].score
                    /\ {r.id1, r.id2} = {handed[k].id1, handed[k].id2}
                    /\ r.id1 <= handed[k].id1 /\ r.id1 <= handed[k].id2
                    /\ r.id2 >= handed[k].id1 /\ r.id2 >= handed[k].id2
        /\ \A k \in 1..Len(handed) :
              handed[k].id1 > handed[k].id2 =>
                  ~\E r \in committed \cup txn_rows : r.id1 = handed[k].id1 /\ r.id2 = handed[k].id2

C8_Witness ==
    /\ pc = "exit" /\ exit_code = 0
    /\ \E c \in 1..Len(save_calls) : \E k \in 1..Len(save_calls[c]) :
          /\ save_calls[c][k].id1 = 3 /\ save_calls[c][k].id2 = 1
          /\ \E r \in committed : r.id1 = 1 /\ r.id2 = 3 /\ r.score = save_calls[c][k].score

\* C9: the record buffer never holds more than BATCH_SIZE records; a push
\* that brings it to BATCH_SIZE is followed by one save_alignments_batch call
\* with the whole buffer and by its clearing before the next pair is
\* computed; a non-empty remainder is saved once after the last pair.
C9_BoundedBuffer ==
    /\ [](Len(batch) <= BATCH_SIZE)
    /\ []((pc = "sweep" \/ pc = "commit" \/ pc = "begin") => Len(batch) < BATCH_SIZE)
    /\ [][Len(batch) = BATCH_SIZE => /\ pc = "save_full"
                                     /\ produced' = produced
                                     /\ \/ pc' = "crashed"
                                        \/ batch' = <<>> /\ save_calls' = Append(save_calls, batch)]_vars
    /\ [](SweepReturned =>
            LET full == Len(produced) \div BATCH_SIZE
                rem  == Len(produced) % BATCH_SIZE
            IN  /\ Len(save_calls) = full + (IF rem > 0 THEN 1 ELSE 0)
                /\ \A c \in 1..full : Len(save_calls[c]) = BATCH_SIZE
                /\ rem > 0 => Len(save_calls[full + 1]) = rem)

C9_Witness ==
    /\ pc = "final_commit"
    /\ Len(save_calls) = 2
    /\ Len(save_calls[1]) = BATCH_SIZE
    /\ Len(save_calls[2]) = 1
    /\ batch = <<>>

\* Records computed by the sweep that are neither committed nor refused by
\* the store.
NotYetCommitted == Len(produced) - Cardinality(committed) - (MaxFaults - faults_left)

\* C10: at every point of a run the records computed but not yet committed
\* (buffered, or inserted in the open transaction) are at most BATCH_SIZE;
\* a crash loses at most that many and never a committed row.
C10_AtMostOneBatchUncommitted ==
    /\ [](Len(batch) + Cardinality(txn_rows) <= BATCH_SIZE)
    /\ [](NotYetCommitted <= BATCH_SIZE)
    /\ [](pc = "crashed" => lost = NotYetCommitted)
    /\ [][committed \subseteq committed']_vars

C10_Witness ==
    /\ pc = "crashed"
    /\ lost = BATCH_SIZE
    /\ Cardinality(committed) = BATCH_SIZE
    /\ faults_left = MaxFaults

\* The record the sweep computes for the pair of 0-based corpus positions q.
RecordAt(q) == IF SharedPath THEN shared_segments_scores(q[1], q[2]) ELSE alignment_scores(q[1], q[2])

\* The values a stored row got from the insert that added it.
BoundValues(r) == [tbl |-> r.tbl, id1 |-> r.id1, id2 |-> r.id2, level |-> r.level, score |-> r.score]

\* No insert has failed in the run and the store could be opened and set up.
NoStorageFault == faults_left = MaxFaults /\ store_ok

\* C11: in a run without storage faults every record the sweep has produced
\* is either still in the buffer or was handed to save_alignments_batch
\* exactly once, in the order produced; once the sweep has returned the
\* buffer is empty, so every record was handed over by a full-batch flush or
\* by the final flush, and the store holds exactly one row for each of them.
C11_EveryRecordHandedOnce ==
    (NoStorageFault /\ pc # "crashed") =>
        LET handed == Flatten(save_calls)
            rows == committed \cup txn_rows
        IN  /\ handed \o batch = [k \in 1..Len(produced) |-> RecordAt(produced[k])]
            /\ {BoundValues(r) : r \in rows} = {alignment_row(handed[k], is_segment) : k \in 1..Len(handed)}
            /\ Cardinality(rows) = Len(handed)
            /\ SweepReturned => batch = <<>> /\ Len(handed) = Len(produced)

C11_Witness ==
    /\ pc = "exit" /\ exit_code = 0
    /\ NoStorageFault
    /\ Len(produced) = 3 * BATCH_SIZE
    /\ Len(save_calls) = 3
    /\ Cardinality(committed) = Len(produced)

\* Two stored rows are for the same pair: of the same table, ids and level
\* (the level of a SegmentAlignment row is "").
SamePair(r, q) == r.tbl = q.tbl /\ r.id1 = q.id1 /\ r.id2 = q.id2 /\ r.level = q.level

\* The records of the buffer, by position, whose pair has a committed row.
AlreadyCommitted ==
    {k \in 1..Len(batch) : \E q \in committed : SamePair(q, alignment_row(batch[k], is_segment))}

\* C12: through any sequence of runs against the same store, completed,
\* crashed or repeated for the same level, the alignment tables never hold
\* two rows for the same (id1, id2, level), or (id1, id2) for segments; a
\* committed row is never removed or changed; and a save_alignments_batch
\* call writes one line to cerr for each of its records whose pair is
\* already committed and adds no row for it.
C12_OneRowPerPair ==
    /\ [](\A r, q \in committed \cup txn_rows : SamePair(r, q) => r = q)
    /\ [][committed \subseteq committed']_vars
    /\ [][save_calls' # save_calls /\ save_calls' # <<>> =>
            LET said == SubSeq(diag', Len(diag) + 1, Len(diag'))
            IN  /\ Len(said) = Cardinality(AlreadyCommitted)
                /\ \A k \in AlreadyCommitted :
                      LET r == alignment_row(batch[k], is_segment)
                      IN  /\ \E n \in 1..Len(said) : said[n] = Message("Failed to insert batch alignment", r.id1, r.id2)
                          /\ \A q \in committed' \cup txn_rows' : SamePair(q, r) => q \in committed]_vars

C12_Witness ==
    /\ runs = 2
    /\ level = "note"
    /\ pc = "exit" /\ exit_code = 0
    /\ Len(diag) = 3
    /\ Cardinality(committed) = 3
    /\ \A r \in committed : r.tbl = "ScoreAlignment" /\ r.level = "note"

\* The lines of cerr that report a failed insert.
InsertFailures(d) == SelectSeq(d, LAMBDA m : m.msg = "Failed to insert batch alignment")

\* C13: a save_alignments_batch call attempts every record of its batch:
\* each record either gets its row or is reported by one line of cerr, a
\* line for each failed record and for no other; the call returns to the
\* sweep, which goes on to the commit; a run that has called
\* save_alignments_batch never exits with an error status, and a run that
\* ends normally has persisted the enumerated pairs less the reported ones.
C13_FailedInsertSkipsOneRecord ==
    /\ [][save_calls' # save_calls =>
            LET said == SubSeq(diag', Len(diag) + 1, Len(diag'))
                rows == (committed' \cup txn_rows') \ (committed \cup txn_rows)
                stored == {k \in 1..Len(batch) : \E r \in rows : BoundValues(r) = alignment_row(batch[k], is_segment)}
            IN  /\ save_calls' = Append(save_calls, batch)
                /\ Len(said) = Len(batch) - Cardinality(stored)
                /\ Cardinality(rows) = Cardinality(stored)
                /\ \A n \in 1..Len(said) : \E k \in (1..Len(batch)) \ stored :
                      said[n] = Message("Failed to insert batch alignment", alignment_row(batch[k], is_segment).id1, alignment_row(batch[k], is_segment).id2)
                /\ pc' \in {"commit", "final_commit"}]_vars
    /\ [](save_calls # <<>> => exit_code # 1)
    /\ []((pc = "exit" /\ exit_code = 0) =>
            /\ Cardinality(committed) = Len(produced) - Len(InsertFailures(diag))
            /\ Len(InsertFailures(diag)) = MaxFaults - faults_left)

C13_Witness ==
    /\ pc = "exit" /\ exit_code = 0
    /\ Len(produced) = 6
    /\ Len(save_calls) = 3
    /\ Cardinality(committed) = 5
    /\ InsertFailures(diag) = <<Message("Failed to insert batch alignment", save_calls[1][1].id1, save_calls[1][1].id2)>>
    /\ \E r \in committed : r.id1 = save_calls[1][2].id1 /\ r.id2 = save_calls[1][2].id2
    /\ ~\E r \in committed : r.id1 = save_calls[1][1].id1 /\ r.id2 = save_calls[1][1].id2

\* A score-mode command line whose level is missing or is none of the three.
ScoreModeBadLevel(args) ==
    /\ Len(args) >= 1
    /\ args[1] = "--type=score"
    /\ \/ Len(args) < 3
       \/ args[2] # "--level"
       \/ args[3] \notin {"note", "structure", "shared_segments"}

\* The run has not touched the store: no connection, no transaction, no
\* pair computed, no row written.
StoreUntouched ==
    /\ ~db_open /\ ~in_txn /\ store_ok
    /\ produced = <<>> /\ save_calls = <<>>
    /\ txn_rows = {} /\ committed = {}

\* C14: a score-mode invocation whose level is missing or is not one of
\* note, structure, shared_segments goes from main straight to the exit
\* with status 1; the store is never opened, no pair is computed and
\* nothing is written.
C14_BadLevelRejected ==
    ScoreModeBadLevel(argv) =>
        /\ pc \in {"main", "exit"}
        /\ pc = "exit" => exit_code = 1
        /\ StoreUntouched

C14_Witness ==
    /\ argv = <<"--type=score", "--level", "bogus">>
    /\ pc = "exit" /\ exit_code = 1
    /\ diag = <<Message("Error: level must be 'note', 'structure', or 'shared_segments'", 0, 0)>>
    /\ StoreUntouched

\* A malformed command line: no argument, a mode selector that is neither
\* --type=segment nor --type=score, or arguments beyond those of the mode.
Malformed(args) ==
    \/ Len(args) = 0
    \/ args[1] \notin {"--type=segment", "--type=score"}
    \/ args[1] = "--type=segment" /\ Len(args) > 1
    \/ args[1] = "--type=score" /\ Len(args) > 3

\* C15: every malformed invocation goes from main straight to the exit with
\* a non-zero status and the store untouched.  main does not do this: it
\* tests argv[1] against --type=segment only, so any other selector runs as
\* score mode, and in segment mode it never looks at argc again.
C15_MalformedFailsFast ==
    Malformed(argv) =>
        /\ pc \in {"main", "exit"}
        /\ pc = "exit" => exit_code = 1
        /\ StoreUntouched

\* C16: once the store could not be opened or could not be set up, the run
\* is at its exit with a non-zero status, has reported the error, has
\* enumerated no pair and has written no record.  This holds when
\* sqlite3_open fails; when the pragmas and BEGIN TRANSACTION fail,
\* initialize_database returns the connection all the same and main goes
\* on to the load, the sweep and return 0.
C16_StoreFailureFatal ==
    ~store_ok =>
        /\ pc = "exit" /\ exit_code = 1
        /\ diag # <<>>
        /\ produced = <<>> /\ save_calls = <<>>
        /\ txn_rows = {} /\ committed = {}

\* The non-empty pieces of a feature string between its delimiters.
Tokens(feature) == SelectSeq(getline_all(feature, 1, <<>>, <<>>), LAMBDA t : t # <<>>)

\* The digits of a token after its optional sign.
Digits(tok) == IF tok # <<>> /\ tok[1] \in {"-", "+"} THEN Tail(tok) ELSE tok

\* A well-formed integer: an optional sign and then digits only.
WellFormedInteger(tok) ==
    Digits(tok) # <<>> /\ \A k \in 1..Len(Digits(tok)) : Digits(tok)[k] \in DigitChars

RECURSIVE StripZeros(_)
StripZeros(ds) == IF Len(ds) > 1 /\ ds[1] = "0" THEN StripZeros(Tail(ds)) ELSE ds

\* The value of at most nine digits.
RECURSIVE Decimal(_)
Decimal(ds) == IF ds = <<>> THEN 0 ELSE Decimal(SubSeq(ds, 1, Len(ds) - 1)) * 10 + DigitVal(ds[Len(ds)])

\* The well-formed integer tok lies in [INT_MIN, INT_MAX].
InIntRange(tok) ==
    LET ds == StripZeros(Digits(tok))
        last == IF tok[1] = "-" THEN 8 ELSE 7
    IN  \/ Len(ds) <= 9
        \/ /\ Len(ds) = 10
           /\ \/ Decimal(SubSeq(ds, 1, 9)) < 214748364
              \/ Decimal(SubSeq(ds, 1, 9)) = 214748364 /\ DigitVal(ds[10]) <= last

\* The value of a well-formed integer in the range of int.
IntegerValue(tok) ==
    LET ds == StripZeros(Digits(tok))
        head == Decimal(SubSeq(ds, 1, IF Len(ds) = 10 THEN 9 ELSE Len(ds)))
    IN  IF Len(ds) < 10 THEN (IF tok[1] = "-" THEN 0 - head ELSE head)
        ELSE IF tok[1] = "-" THEN (0 - head) * 10 - DigitVal(ds[10])
        ELSE head * 10 + DigitVal(ds[10])

\* The element the claim gives a token: absent for "r" and for every token
\* that is not a well-formed integer in range, the value otherwise.
ClaimedElement(tok) ==
    IF tok # <<"r">> /\ WellFormedInteger(tok) /\ InIntRange(tok) THEN Some(IntegerValue(tok)) ELSE nullopt

\* C17: convert_feature_to_vector yields one element for each non-empty
\* token, in order: absent for "r" and for every token that is not a
\* well-formed integer in the range of int, the value for the others.  The
\* code hands the token to std::stoi, which takes the leading digits of a
\* partly numeric token: "1x" becomes the value 1, not an absent element.
C17_MalformedTokenAbsent ==
    c_pc = "done" =>
        c_result = [k \in 1..Len(Tokens(c_feature)) |-> ClaimedElement(Tokens(c_feature)[k])]

\* The corpus has been read from a usable store.
Loaded ==
    /\ store_ok
    /\ pc \in {"sweep", "save_full", "commit", "begin", "final_commit", "close"} \/ (pc = "exit" /\ exit_code = 0)

\* The modes that read the five textual encodings of each entity.
ReadsEncodings == is_segment \/ level = "note"

\* The encoding of feature type ft of the entity id is empty or NULL.
EmptyOrMissing(id, ft) == FeatureColumn(id, ft).isnull \/ FeatureColumn(id, ft).chars = <<>>

TableIds == {tbl[k] : k \in 1..Len(tbl)}

CorpusIds == {data[k].id : k \in 1..Len(data)}

\* An empty or missing encoding of one of the feature types fts has become
\* a zero-length sequence, and once the sweep has returned each record of
\* such an entity has, for that feature type, the score of an empty sequence
\* against the other one.
ZeroLengthFor(fts) ==
    /\ \A k \in 1..Len(data) : \A ft \in fts :
          EmptyOrMissing(data[k].id, ft) => data[k].feature[ft] = <<>>
    /\ SweepReturned =>
          \A n \in 1..Len(produced) : \A ft \in fts :
              LET x == data[produced[n][1] + 1]
                  y == data[produced[n][2] + 1]
              IN  EmptyOrMissing(x.id, ft) => RecordAt(produced[n]).score[ft] = Len(y.feature[ft])

\* C18 as claimed: every entity of the table is in the corpus, whichever of
\* its five encodings is empty or missing, and is compared as a zero-length
\* sequence for that feature type.
C18_EmptyEncodingKept ==
    (Loaded /\ ReadsEncodings) =>
        /\ CorpusIds = TableIds
        /\ ZeroLengthFor(FeatureTypeSet)

\* C18, amended: an entity whose chromatic, rhythmic, diatonic_rhythmic or
\* chromatic_rhythmic encoding is empty or NULL stays in the corpus, is
\* compared as a zero-length sequence for that feature type and is paired
\* with every other entity of the corpus; an entity whose diatonic encoding
\* is empty or NULL is not in the corpus and takes part in no pair.
C18_EmptyEncodingKeptUnlessDiatonic ==
    (Loaded /\ ReadsEncodings) =>
        /\ CorpusIds = {id \in TableIds : ~EmptyOrMissing(id, "diatonic")}
        /\ ZeroLengthFor(FeatureTypeSet \ {"diatonic"})
        /\ SweepReturned =>
              \A x, y \in CorpusIds : x # y =>
                  \E n \in 1..Len(produced) : {EntityId(produced[n][1]), EntityId(produced[n][2])} = {x, y}

C18_Witness ==
    /\ pc = "exit" /\ exit_code = 0 /\ store_ok
    /\ level = "note"
    /\ TableIds = {1, 2, 3, 4}
    /\ EmptyOrMissing(4, "diatonic") /\ CorpusIds = {1, 2, 3}
    /\ FeatureColumn(3, "rhythmic") = NULL /\ FeatureColumn(1, "chromatic") = Text(<<>>)
    /\ \E k \in 1..3 : data[k].id = 3 /\ data[k].feature["rhythmic"] = <<>>
    /\ \E k \in 1..3 : data[k].id = 1 /\ data[k].feature["chromatic"] = <<>>
    /\ Len(produced) = 3

\* C19: for all vectors of occurrence counts, of equal or unequal lengths,
\* euclidean_distance(v1, v2) and euclidean_distance(v2, v1) have the same
\* sum of squares and the same stored score, and the distance of a vector
\* from itself is 0.
C19_DistanceSymmetricZeroOnSelf ==
    e_pc = "done" =>
        /\ e_sum = euclidean_sum_sq(e_v2, e_v1)
        /\ e_score = distance_score(euclidean_sum_sq(e_v2, e_v1))
        /\ e_v1 = e_v2 => e_sum = 0 /\ e_score = 0
        /\ euclidean_sum_sq(e_v1, e_v1) = 0 /\ euclidean_sum_sq(e_v2, e_v2) = 0

C19_Witness ==
    /\ e_pc = "done"
    /\ e_v1 = <<1, 2>> /\ e_v2 = <<2, 0, 3>>
    /\ e_sum = 14 /\ e_score = 374
    /\ euclidean_sum_sq(<<2, 0, 3>>, <<1, 2>>) = 14

\* v extended with zeros to length n.
ZeroPadded(v, n) == [k \in 1..n |-> IF k <= Len(v) THEN v[k] ELSE 0]

\* The sum of the squared differences of two vectors of one length.
RECURSIVE SquaredDifferences(_, _)
SquaredDifferences(u, w) ==
    IF u = <<>> THEN 0
    ELSE (Head(u) - Head(w)) * (Head(u) - Head(w)) + SquaredDifferences(Tail(u), Tail(w))

\* C20: for vectors of unequal lengths euclidean_distance gives the
\* distance of the two vectors after the shorter one is extended with
\* zeros to the length of the longer; [1, 2] against [1, 2, 3] has the sum
\* of squares 9 and the distance 3.
C20_ZeroPadding ==
    e_pc = "done" =>
        LET n == IF Len(e_v1) > Len(e_v2) THEN Len(e_v1) ELSE Len(e_v2)
        IN  /\ e_sum = SquaredDifferences(ZeroPadded(e_v1, n), ZeroPadded(e_v2, n))
            /\ e_sum = euclidean_sum_sq(ZeroPadded(e_v1, n), ZeroPadded(e_v2, n))
            /\ (e_v1 = <<1, 2>> /\ e_v2 = <<1, 2, 3>>) => e_sum = 9 /\ e_score = 300

C20_Witness ==
    /\ e_pc = "done"
    /\ e_v1 = <<1, 2>> /\ e_v2 = <<1, 2, 3>>
    /\ e_sum = 9 /\ e_score = 300

SharedLoaded == SharedPath /\ Loaded

\* The occurrence profile of an entity of the corpus for a feature type, as
\* the sweep builds it.
Profile(id, ft) == map_to_vector(cached_occurrences[<<id, ft>>], max_group_ids[ft])

\* C22: in a shared_segments run, for every entity and feature type the
\* profile has max_group_ids[ft] + 1 cells, cell g holds the number of the
\* entity's segments assigned to group g for every g in 0..max, no
\* segment of the entity has a group beyond the last cell, and all profiles
\* of one feature type have the same length.
C22_ProfileShape ==
    SharedLoaded =>
        \A n \in 1..Len(scores) : \A ft \in FeatureTypeSet :
            LET rows == SegmentGroupRows(scores[n], ft)
                p == Profile(scores[n], ft)
            IN  /\ Len(p) = max_group_ids[ft] + 1
                /\ \A g \in 0..max_group_ids[ft] : p[g + 1] = Cardinality({k \in 1..Len(rows) : rows[k] = g})
                /\ \A k \in 1..Len(rows) : rows[k] \in 0..max_group_ids[ft]
                /\ \A m \in 1..Len(scores) : Len(Profile(scores[m], ft)) = Len(p)

C22_Witness ==
    /\ SharedLoaded
    /\ pc = "exit"
    /\ Len(scores) = 4
    /\ max_group_ids["diatonic"] = 2
    /\ Profile(3, "diatonic") = <<2, 1, 0>>
    /\ Profile(2, "diatonic") = <<0, 0, 1>>
    /\ Profile(1, "diatonic") = <<0, 0, 0>>

\* The raw feature sequence of an entity: its encoding of the store, with
\* NULL read as the empty string.
RawSequence(id, ft) ==
    convert_feature_to_vector(IF FeatureColumn(id, ft).isnull THEN <<>> ELSE FeatureColumn(id, ft).chars)

\* The group-id sequence of a score: the group of each of its segments.
GroupIdSequence(id, ft) == [k \in 1..Len(SegmentGroupRows(id, ft)) |-> Some(SegmentGroupRows(id, ft)[k])]

\* The occurrence profile of a score over the groups 0..top.
OccurrenceProfile(id, ft, top) ==
    [k \in 1..(top + 1) |-> Cardinality({n \in 1..Len(SegmentGroupRows(id, ft)) : SegmentGroupRows(id, ft)[n] = k - 1})]

\* The largest group id of a feature type over the scores of the table.
TopGroup(ft) ==
    LET gs == UNION {{SegmentGroupRows(id, ft)[k] : k \in 1..Len(SegmentGroupRows(id, ft))} : id \in TableIds}
    IN  IF gs = {} THEN 0 ELSE CHOOSE g \in gs : \A h \in gs : h <= g

\* The run is at level shared_segments of score mode.
SharedLevel == ~is_segment /\ level = "shared_segments"

\* What the run has loaded is what its mode and level select: the raw
\* sequences of the entities with a diatonic encoding in segment mode and at
\* level note, the group-id sequences of all scores at level structure, the
\* occurrence profiles of all scores at level shared_segments.
LoadedByModeAndLevel ==
    IF SharedLevel
    THEN /\ scores = tbl /\ data = <<>>
         /\ \A n \in 1..Len(scores) : \A ft \in FeatureTypeSet :
               /\ <<scores[n], ft>> \in DOMAIN cached_occurrences
               /\ Profile(scores[n], ft) = OccurrenceProfile(scores[n], ft, TopGroup(ft))
    ELSE /\ scores = <<>> /\ cached_occurrences = <<>>
         /\ \A k \in 1..Len(data) : \A ft \in FeatureTypeSet :
               data[k].feature[ft] = IF ~is_segment /\ level = "structure"
                                     THEN GroupIdSequence(data[k].id, ft)
                                     ELSE RawSequence(data[k].id, ft)

\* The features the run has loaded for the entity id.
LoadedFeature(id, ft) == data[CHOOSE k \in 1..Len(data) : data[k].id = id].feature[ft]

\* The score the selected path gives a pair of loaded entities for a
\* feature type.
PathScore(id1, id2, ft) ==
    IF SharedLevel
    THEN distance_score(euclidean_sum_sq(Profile(id1, ft), Profile(id2, ft)))
    ELSE global_alignment(LoadedFeature(id1, ft), LoadedFeature(id2, ft), 0, 1, 1)

\* C23: the computation of a pair is chosen by mode and level alone.  What
\* the sweep starts from are the raw feature sequences in segment mode and
\* at level note, the group-id sequences at level structure and the
\* occurrence profiles at level shared_segments; every record the sweep
\* pushes carries, for each feature type, global_alignment(0, 1, 1) of the
\* two sequences on the first two and the rounded profile distance on the
\* third; on every path a returned sweep has enumerated n(n-1)/2 pairs and
\* has flushed them in batches of BATCH_SIZE followed by at most one shorter
\* batch.
C23_PathByModeAndLevel ==
    /\ (Loaded /\ pc = "sweep" /\ produced = <<>> /\ i = 0) => LoadedByModeAndLevel
    /\ (batch # <<>> /\ pc \in {"sweep", "save_full"}) =>
          LET newest == batch[Len(batch)]
          IN  /\ newest.level = level
              /\ newest.id1 = EntityId(produced[Len(produced)][1])
              /\ newest.id2 = EntityId(produced[Len(produced)][2])
              /\ \A ft \in FeatureTypeSet : newest.score[ft] = PathScore(newest.id1, newest.id2, ft)
    /\ SweepReturned =>
          /\ Len(produced) = (CorpusSize * (CorpusSize - 1)) \div 2
          /\ Len(Flatten(save_calls)) = Len(produced)
          /\ \A n \in 1..Len(save_calls) :
                IF n < Len(save_calls) THEN Len(save_calls[n]) = BATCH_SIZE ELSE Len(save_calls[n]) \in 1..BATCH_SIZE

C23_Witness ==
    /\ pc = "exit" /\ exit_code = 0
    /\ level = "shared_segments"
    /\ Len(save_calls) = 3
    /\ \E k \in 1..BATCH_SIZE :
          /\ save_calls[1][k].id1 = 3 /\ save_calls[1][k].id2 = 2
          /\ save_calls[1][k].score["diatonic"] = 245
          /\ global_alignment(GroupIdSequence(3, "diatonic"), GroupIdSequence(2, "diatonic"), 0, 1, 1) = 3

\* The phase of a run: 0 before the store is open, 1 INIT (the corpus and
\* the caches are being loaded), 2 SWEEPING (pairs are enumerated, computed,
\* buffered and flushed by full batches), 3 FLUSHING done (the remainder has
\* been handed over; the last commit and the close are left), 4 DONE.
Phase ==
    CASE pc \in {"main", "open_db"} -> 0
      [] pc = "load" -> 1
      [] pc \in {"sweep", "save_full", "commit", "begin"} -> 2
      [] pc \in {"final_commit", "close"} -> 3
      [] OTHER -> 4

\* DONE: main has returned 0.
Done == pc = "exit" /\ exit_code = 0

\* One step of a run whose store is open keeps the order of the phases.
PhaseStep ==
    Phase \in 1..3 /\ pc' # "crashed" =>
        /\ Phase' \in {Phase, Phase + 1}
        /\ Phase' = 4 => Done'
        /\ Phase >= 2 => UNCHANGED loadvars
        /\ produced' # produced =>
              /\ Phase = 2 /\ Phase' = 2
              /\ produced' = Append(produced, <<i, j>>)
              /\ \A k \in 1..Len(produced) : produced[k] # <<i, j>>
        /\ i' >= i
        /\ Phase = 2 /\ Phase' = 3 =>
              /\ Len(produced) = (CorpusSize * (CorpusSize - 1)) \div 2
              /\ Len(batch) < BATCH_SIZE
              /\ save_calls' = IF batch = <<>> THEN save_calls ELSE Append(save_calls, batch)
        /\ Phase >= 3 => save_calls' = save_calls /\ batch' = <<>> /\ batch = <<>>

\* C24: a run that has passed the argument validation and has opened the
\* store goes through INIT, SWEEPING, FLUSHING and DONE in this order: a
\* step stays in its phase or enters the next one; the corpus and the caches
\* are loaded before the first pair and not touched afterwards; no pair is
\* computed twice and the outer index never goes back; the remainder is
\* flushed once, after the last pair, and is shorter than a batch; and a
\* run whose process is not killed reaches DONE.
C24_PhasesInOrder ==
    /\ [][PhaseStep]_vars
    /\ (pc = "load") ~> (Done \/ pc = "crashed")

\* A run of three entities has flushed a full batch and a remainder of one
\* record and has returned 0.
C24_Witness ==
    /\ Done /\ store_ok
    /\ Len(produced) = 3
    /\ Len(save_calls) = 2
    /\ Len(save_calls[1]) = BATCH_SIZE /\ Len(save_calls[2]) = 1

\* C25: in a run at level shared_segments the occurrence cache holds, when
\* the sweep starts and at every later point of the run, exactly one entry
\* for each score of the corpus and each feature type, with the occurrences
\* read from the store, and the max-group-id map exactly one entry for each
\* feature type; no step of the sweep (and no later step) adds a key to
\* either map or changes a value.
C25_CachesReadOnly ==
    /\ [](SharedLevel /\ Loaded =>
            /\ DOMAIN max_group_ids = FeatureTypeSet
            /\ DOMAIN cached_occurrences = {scores[n] : n \in 1..Len(scores)} \X FeatureTypeSet
            /\ \A key \in DOMAIN cached_occurrences : cached_occurrences[key] = get_group_occurrences(key[1], key[2]))
    /\ [][SharedLevel /\ Phase \in 2..3 /\ pc' # "crashed" => UNCHANGED <<max_group_ids, cached_occurrences>>]_vars

\* The sweep of a shared_segments run over four scores has compared its
\* last pair, reading the twenty entries of the cache.
C25_Witness ==
    /\ SharedLevel /\ Loaded
    /\ Len(scores) = 4 /\ Len(produced) = 6
    /\ Cardinality(DOMAIN cached_occurrences) = 20
    /\ cached_occurrences[<<3, "diatonic">>] = (0 :> 2 @@ 1 :> 1)

\* What the run holds of an entity for one feature type: its sequence on
\* the alignment path, its group occurrences on the shared_segments path.
EntityData(id, ft) == IF SharedLevel THEN cached_occurrences[<<id, ft>>] ELSE LoadedFeature(id, ft)

C26_DifferentPairsSameData(ft, other) ==
    LET handed == Flatten(save_calls)
    IN  \E k1, k2 \in 1..Len(handed) :
            /\ <<handed[k1].id1, handed[k1].id2>> # <<handed[k2].id1, handed[k2].id2>>
            /\ EntityData(handed[k1].id1, ft) = EntityData(handed[k2].id1, ft)
            /\ EntityData(handed[k1].id2, ft) = EntityData(handed[k2].id2, ft)
            /\ handed[k1].score[ft] = handed[k2].score[ft]
            /\ handed[k1].score[ft] > 0
            /\ handed[k1].score[other] # handed[k2].score[other]

PrevColumnAtEntry == first_row(Len(a_s2), a_gap)

CurrentColumnAtReturn == columns_from(first_row(Len(a_s2), a_gap), 1, a_s1, a_s2, a_match, a_mismatch, a_gap)

\* The smaller of the two lengths.
MinLen(m, n) == IF m < n THEN m ELSE n

\* C27: each of the two rolling columns of a call of global_alignment holds
\* at most min(m, n) + 1 cells, for sequences of lengths m and n passed in
\* either order.
C27_ColumnsOfMinLength ==
    a_pc = "done" =>
        /\ Cardinality(DOMAIN PrevColumnAtEntry) <= MinLen(Len(a_s1), Len(a_s2)) + 1
        /\ Cardinality(DOMAIN CurrentColumnAtReturn) <= MinLen(Len(a_s1), Len(a_s2)) + 1

\* The k-th command of the script's log is this command.
IsCommand(k, cmd) == s_log[k].cmd = cmd

\* The k-th command of the log has run and has succeeded.
Ran(k, cmd) == IsCommand(k, cmd) /\ s_log[k].status = 0

\* The k-th command of the log is a score alignment.
IsScoreAlignment(k) == Len(s_log[k].cmd) = 3 /\ s_log[k].cmd[2] = "score"

\* The levels of the score alignments of the log, in the order of the log.
RECURSIVE ScoreLevelsRun(_)
ScoreLevelsRun(k) ==
    IF k > Len(s_log) THEN <<>>
    ELSE (IF IsScoreAlignment(k) THEN <<s_log[k].cmd[3]>> ELSE <<>>) \o ScoreLevelsRun(k + 1)

\* A score alignment that needs the clusters is requested, and the
\* clustering is not skipped.
ClustersNeeded ==
    /\ alignment_type \in {"score", "all"}
    /\ score_level \in {"structure", "shared_segments", "all"}
    /\ ~skip_clustering

\* The script has reached its last line: it has ended with status 0 and
\* was not cancelled at the --skip-clustering warning.
Completed ==
    /\ s_pc = "exit" /\ s_status = 0
    /\ ~(clustering_required(alignment_type, score_level) /\ skip_clustering /\ confirm \notin {"y", "Y"})

\* C28: when a score alignment at level structure, shared_segments or all
\* is requested without --skip-clustering, every score alignment the script
\* starts comes after a successful segment alignment and, after that, a
\* successful segment clustering, and a script that reaches its last line
\* has run the score alignment; with --level all the score alignments run in
\* the order note, structure, shared_segments; a failed command is the last
\* command the script runs, and the script ends with its non-zero status.
C28_ScriptOrder ==
    /\ ClustersNeeded =>
          /\ \A k \in 1..Len(s_log) :
                IsScoreAlignment(k) =>
                    \E k1, k2 \in 1..(k - 1) :
                        /\ k1 < k2
                        /\ Ran(k1, <<"compute_features_alignment", "segment", "">>)
                        /\ Ran(k2, <<"undertake_segments_clustering.sh">>)
          /\ Completed => ScoreLevelsRun(1) # <<>>
    /\ (s_pc # "parsed" /\ score_level = "all") =>
          /\ \E n \in 0..3 : ScoreLevelsRun(1) = SubSeq(<<"note", "structure", "shared_segments">>, 1, n)
          /\ (Completed /\ alignment_type \in {"score", "all"}) =>
                ScoreLevelsRun(1) = <<"note", "structure", "shared_segments">>
    /\ \A k \in 1..Len(s_log) :
          s_log[k].status # 0 => k = Len(s_log) /\ s_pc = "exit" /\ s_status = s_log[k].status /\ s_todo # <<>>
    /\ Completed => s_todo = <<>>

\* --alignment score --level all without --skip-clustering has run to its
\* end: the segment alignment, the clustering and the three score levels.
C28_Witness ==
    /\ Completed
    /\ ClustersNeeded /\ score_level = "all" /\ skip_setup /\ ~generate_trees
    /\ Len(s_log) = 9
    /\ Ran(2, <<"compute_features_alignment", "segment", "">>)
    /\ Ran(3, <<"undertake_segments_clustering.sh">>)
    /\ ScoreLevelsRun(1) = <<"note", "structure", "shared_segments">>

\* C29: with match 0, mismatch 1 and gap 1 the distance of global_alignment
\* satisfies the triangle inequality: for all sequences A, B, C of optional
\* integers d(A, C) <= d(A, B) + d(B, C).
C29_TriangleInequality ==
    t_pc = "done" => t_AC <= t_AB + t_BC

\* The inequality is tight on A = [3, absent], B = [3], C = [5]: d(A, B) = 1,
\* d(B, C) = 1 and d(A, C) = 2.
C29_Witness ==
    /\ t_pc = "done"
    /\ t_A = <<Some(3), nullopt>> /\ t_B = <<Some(3)>> /\ t_C = <<Some(5)>>
    /\ t_AB = 1 /\ t_BC = 1 /\ t_AC = 2

\* The rows of the two result tables, committed or not.
StoredRows == committed \cup txn_rows

\* The statements on the store are paired at every point of a run.
TransactionsBalanced ==
    /\ (pc = "load" /\ store_ok) => (in_txn /\ txn_rows = {})
    /\ txn_rows # {} => in_txn
    /\ pc = "save_full" => (store_ok => in_txn)
    /\ pc = "commit" => (batch = <<>> /\ (store_ok => in_txn))
    /\ pc = "begin" => (~in_txn /\ txn_rows = {})
    /\ pc = "final_commit" => (batch = <<>> /\ (store_ok => in_txn))
    /\ (pc = "close" \/ (pc = "exit" /\ exit_code = 0)) => (~in_txn /\ txn_rows = {})

\* One step of a living process keeps the pairing: BEGIN only when no
\* transaction is open, rows are inserted only into the open transaction,
\* and COMMIT closes it and makes its rows durable.
TransactionStep ==
    pc' # "crashed" =>
        /\ (~in_txn /\ in_txn') => (pc \in {"open_db", "begin"} /\ txn_rows' = {})
        /\ StoredRows' # StoredRows =>
              /\ in_txn /\ in_txn'
              /\ committed' = committed
              /\ StoredRows \subseteq StoredRows'
              /\ pc \in {"save_full", "sweep"}
        /\ (in_txn /\ ~in_txn') =>
              /\ pc \in {"commit", "final_commit"}
              /\ committed' = committed \cup txn_rows

\* C30: the transactions of a run are balanced.  initialize_database opens
\* one on a usable store; a full batch is inserted inside the open
\* transaction, which is then committed before the next one is opened; main
\* commits the last one after the remainder has been saved.  No transaction
\* is opened while one is open, no row is inserted outside a transaction,
\* and a run that returns 0 has no open transaction and no uncommitted row.
C30_TransactionsBalanced ==
    /\ []TransactionsBalanced
    /\ [][TransactionStep]_vars

\* A run has returned 0 after two transactions: the one of
\* initialize_database, committed after the first full batch, and the one
\* opened after it, committed by main with the row of the remainder.
C30_Witness ==
    /\ pc = "exit" /\ exit_code = 0 /\ store_ok
    /\ ~in_txn /\ txn_rows = {}
    /\ Len(save_calls) = 2 /\ Len(save_calls[2]) = 1
    /\ Cardinality(committed) = BATCH_SIZE + 1

====
